---- MODULE Spec2Model ----
(***************************************************************************)
(* A model of tools/build.py, the static-site build of bring-recipes:      *)
(* load_recipes, build_recipe_page, build_index and main, together with    *)
(* the library functions they rest on (html.escape, urllib.parse.quote,    *)
(* json.dumps, pathlib's "/" and mkdir / write_text).                      *)
(*                                                                         *)
(* A text is a sequence of symbols.  A symbol is one character, or a fixed *)
(* run of characters that is never split (a letter run such as "script",   *)
(* or a fragment of one of the two templates).                             *)
(***************************************************************************)
EXTENDS Integers, Sequences, FiniteSets, TLC

VARIABLES files, tree, dirs, pc, recipes, i, err, stdout, log, page,
          startTree, startDirs, runs, prevFiles, prevTree, edited

vars == <<files, tree, dirs, pc, recipes, i, err, stdout, log, page,
          startTree, startDirs, runs, prevFiles, prevTree, edited>>

(***************************************************************************)
(* Bounds of the model.                                                    *)
(***************************************************************************)
MaxFiles == 2
MaxRuns == 2
MaxLen == 2

(***************************************************************************)
(* JSON values as Python holds them after json.loads: None, a str, a list, *)
(* a dict (an ordered sequence of <<key, value>> pairs).                   *)
(***************************************************************************)
None == [t |-> "null", v |-> <<>>]
Str(s) == [t |-> "str", v |-> s]
List(l) == [t |-> "list", v |-> l]
Dict(kvs) == [t |-> "dict", v |-> kvs]

IsStr(x) == x.t = "str"
IsList(x) == x.t = "list"

\* Python's truth value of a JSON value (used by "if r.get(...)").
Truthy(x) == x.t # "null" /\ x.v # <<>>

\* dict.get(key): the value, or None when the key is absent.
Get(r, key) == IF key \in DOMAIN r THEN r[key] ELSE None

RECURSIVE Concat(_)
Concat(ss) == IF ss = <<>> THEN <<>> ELSE Head(ss) \o Concat(Tail(ss))

\* sep.join(parts)
RECURSIVE Join(_, _)
Join(sep, parts) ==
    IF parts = <<>> THEN <<>>
    ELSE IF Len(parts) = 1 THEN parts[1]
    ELSE parts[1] \o sep \o Join(sep, Tail(parts))

\* str.replace(c, rep) for a one-symbol c.
RECURSIVE Replace(_, _, _)
Replace(s, c, rep) ==
    IF s = <<>> THEN <<>>
    ELSE (IF Head(s) = c THEN rep ELSE <<Head(s)>>) \o Replace(Tail(s), c, rep)

(***************************************************************************)
(* Library functions.                                                      *)
(***************************************************************************)
\* An escape that leaves the text as it is.
escape_nothing(s) == s

\* html.escape(s, quote=True): five replacements, "&" first.
escape(s) ==
    LET s1 == Replace(s, "&", <<"&", "amp;">>)
        s2 == Replace(s1, "<", <<"&", "lt;">>)
        s3 == Replace(s2, ">", <<"&", "gt;">>)
        s4 == Replace(s3, "\"", <<"&", "quot;">>)
    IN  Replace(s4, "'", <<"&", "#x27;">>)

\* urllib.parse.quote(s, safe=""): every symbol outside letters, digits and
\* "_.-~" becomes its percent escape.
QuoteChar(c) ==
    CASE c = "/" -> "%2F"
      [] c = ":" -> "%3A"
      [] c = "&" -> "%26"
      [] c = "<" -> "%3C"
      [] c = ">" -> "%3E"
      [] c = "\"" -> "%22"
      [] c = "'" -> "%27"
      [] OTHER -> c

quote(s) == [k \in 1..Len(s) |-> QuoteChar(s[k])]

\* json.encoder.py_encode_basestring (ensure_ascii=False): only the quote,
\* the backslash and the control characters are escaped.
EncodeChar(c) ==
    CASE c = "\"" -> <<"\\", "\"">>
      [] c = "\\" -> <<"\\", "\\">>
      [] c = "\n" -> <<"\\", "n">>
      [] OTHER -> <<c>>

encode_basestring(s) ==
    <<"\"">> \o Concat([k \in 1..Len(s) |-> EncodeChar(s[k])]) \o <<"\"">>

Indent(n) == [k \in 1..n |-> "  "]

\* json.dumps(v, ensure_ascii=False, indent=2), v at nesting depth level.
RECURSIVE dumps(_, _)
RECURSIVE DumpItems(_, _, _)
DumpItems(kind, items, level) ==
    IF items = <<>> THEN <<>>
    ELSE LET x == Head(items)
             one == IF kind = "dict"
                    THEN encode_basestring(x[1]) \o <<":", " ">> \o dumps(x[2], level)
                    ELSE dumps(x, level)
         IN  <<Indent(level) \o one>> \o DumpItems(kind, Tail(items), level)

dumps(x, level) ==
    CASE x.t = "null" -> <<"null">>
      [] x.t = "str" -> encode_basestring(x.v)
      [] OTHER ->
           LET open == IF x.t = "dict" THEN "{" ELSE "["
               close == IF x.t = "dict" THEN "}" ELSE "]"
           IN  IF x.v = <<>> THEN <<open, close>>
               ELSE <<open, "\n">>
                    \o Join(<<",", "\n">>, DumpItems(x.t, x.v, level + 1))
                    \o <<"\n">> \o Indent(level) \o <<close>>

\* sorted(S) for a set of integers, ascending.
RECURSIVE sorted(_)
sorted(S) ==
    IF S = {} THEN <<>>
    ELSE LET m == CHOOSE x \in S : \A y \in S : x <= y
         IN  <<m>> \o sorted(S \ {m})

\* str.split(sep) for a one-symbol sep: the pieces between the separators.
Split(s, sep) ==
    LET cuts == sorted({0, Len(s) + 1} \cup {k \in 1..Len(s) : s[k] = sep})
    IN  [j \in 1..(Len(cuts) - 1) |-> SubSeq(s, cuts[j] + 1, cuts[j + 1] - 1)]

\* str.splitlines()
splitlines(s) ==
    LET parts == Split(s, "\n")
    IN  IF s = <<>> THEN <<>>
        ELSE IF parts[Len(parts)] = <<>> THEN SubSeq(parts, 1, Len(parts) - 1)
        ELSE parts

(***************************************************************************)
(* Paths: a path is the sequence of its components from the filesystem     *)
(* root, each component a text.  <<"ROOT">> stands for the components of   *)
(* the repository's own directory.                                         *)
(***************************************************************************)
ROOT == << <<"ROOT">> >>
DOCS_DIR == ROOT \o << <<"docs">> >>
INDEX_HTML == <<"index.html">>

\* The components of a path string: empty and "." components are dropped.
Parts(s) == SelectSeq(Split(s, "/"), LAMBDA c : c # <<>> /\ c # <<".">>)

\* pathlib's  p / s : an absolute s replaces p.
PathJoin(p, s) ==
    IF s # <<>> /\ Head(s) = "/" THEN Parts(s) ELSE p \o Parts(s)

Prefixes(p) == {SubSeq(p, 1, k) : k \in 1..Len(p)}

\* Path.mkdir(parents=True, exist_ok=True): raises when a file is in the way.
mkdir(fs_dirs, fs_tree, p) ==
    IF Prefixes(p) \cap DOMAIN fs_tree # {}
    THEN [raised |-> TRUE, dirs |-> fs_dirs]
    ELSE [raised |-> FALSE, dirs |-> fs_dirs \cup Prefixes(p)]

\* A write that opens the file for appending.
write_text_append(fs_tree, p, c) ==
    [q \in DOMAIN fs_tree \cup {p} |->
       IF q = p THEN (IF p \in DOMAIN fs_tree THEN fs_tree[p] \o c ELSE c)
       ELSE fs_tree[q]]

\* Path.write_text(c): creates the file or replaces its whole content.
write_text(fs_tree, p, c) ==
    [q \in DOMAIN fs_tree \cup {p} |-> IF q = p THEN c ELSE fs_tree[q]]

(***************************************************************************)
(* build.py: constants and templates.  The fixed fragments of a template   *)
(* are single symbols, except the tags the claims are about, which are     *)
(* spelled out.                                                            *)
(***************************************************************************)
REPO_PAGES_BASE == <<"https", ":", "/", "/", "Sabsx.github.io", "/", "bring-recipes">>
ASSETS_IMAGES == <<"assets", "/", "images">>

SCRIPT_OPEN == <<"<", "script type=\"application/ld+json\"", ">", "\n">>
SCRIPT_CLOSE == <<"\n", "  ", "<", "/", "script", ">", "\n">>

\* HTML_TEMPLATE.format(title=..., desc=..., ...)
HTML_TEMPLATE(title, desc, meta, hero_img, jsonld, ingredients_html, instructions_html, bring_link) ==
    <<"<!doctype html>...<title>">> \o title
    \o <<"</title>...<meta name=\"description\" content=\"">> \o desc
    \o <<"\">...<link rel=\"stylesheet\" href=\"../assets/style.css\" />", "\n", "  ">>
    \o SCRIPT_OPEN \o jsonld \o SCRIPT_CLOSE
    \o <<"</head><body><main class=\"wrap\"><h1>">> \o title
    \o <<"</h1><div class=\"sub\">">> \o meta
    \o <<"</div><div class=\"btnrow\"><a class=\"btn\" href=\"">> \o bring_link
    \o <<"\">In Bring! importieren</a>...</div>">> \o hero_img
    \o <<"<section class=\"grid\">...Zutaten...<ul>", "\n">> \o ingredients_html
    \o <<"\n", "</ul>...Zubereitung...<ol>", "\n">> \o instructions_html
    \o <<"\n", "</ol>...</section><footer>...</footer></main></body></html>", "\n">>

\* INDEX_TEMPLATE.format(links_html=...)
INDEX_TEMPLATE(links_html) ==
    <<"<!doctype html>...<h1>Rezepte</h1>...Liste...<ul>", "\n">> \o links_html
    \o <<"\n", "</ul>...<footer>...</footer></main></body></html>", "\n">>

(***************************************************************************)
(* build.py: clean_none and load_recipes.                                  *)
(***************************************************************************)
\* A filter that drops None alone.
clean_none_only(d) == SelectSeq(d, LAMBDA kv : kv[2] # None)

\* {k: v for k, v in d.items() if v is not None and v != ""}
clean_none(d) == SelectSeq(d, LAMBDA kv : kv[2] # None /\ kv[2] # Str(<<>>))

RequiredKeys == <<"slug", "name", "ingredients", "instructions">>

\* The first required key the record lacks, "" when it has them all.
MissingKey(data) ==
    LET missing == SelectSeq(RequiredKeys, LAMBDA key : key \notin DOMAIN data)
    IN  IF missing = <<>> THEN "" ELSE Head(missing)

NoErr == [kind |-> "none", p |-> 0, key |-> ""]

\* A loader that skips a record with a missing key and goes on.
RECURSIVE LoadLoopSkip(_, _, _)
LoadLoopSkip(ps, dir, out) ==
    IF ps = <<>> THEN [err |-> NoErr, out |-> out]
    ELSE LoadLoopSkip(Tail(ps), dir,
                      IF MissingKey(dir[Head(ps)]) # "" THEN out
                      ELSE Append(out, dir[Head(ps)]))

RECURSIVE LoadLoop(_, _, _)
LoadLoop(ps, dir, out) ==
    IF ps = <<>> THEN [err |-> NoErr, out |-> out]
    ELSE LET data == dir[Head(ps)]
         IN  IF MissingKey(data) # ""
             THEN [err |-> [kind |-> "ValueError", p |-> Head(ps), key |-> MissingKey(data)],
                   out |-> <<>>]
             ELSE LoadLoop(Tail(ps), dir, Append(out, data))

\* for p in sorted(RECIPES_DIR.glob("*.json")): the file names ascending.
load_recipes(dir) == LoadLoop(sorted(DOMAIN dir), dir, <<>>)

(***************************************************************************)
(* build.py: build_recipe_page.                                            *)
(***************************************************************************)
li(x) == <<"            ", "<", "li", ">">> \o escape(x) \o <<"<", "/", "li", ">">>

jsonld_obj_of(r) ==
    LET image_url == IF Truthy(Get(r, "image_file"))
                     THEN Str(REPO_PAGES_BASE \o <<"/">> \o ASSETS_IMAGES \o <<"/">>
                              \o r["image_file"].v)
                     ELSE None
    IN  clean_none(<<
          << <<"@context">>, Str(<<"https", ":", "/", "/", "schema.org">>) >>,
          << <<"@type">>, Str(<<"Recipe">>) >>,
          << <<"name">>, r["name"] >>,
          << <<"image">>, IF Truthy(image_url) THEN image_url ELSE None >>,
          << <<"recipeYield">>, Get(r, "yield") >>,
          << <<"recipeIngredient">>, IF IsList(r["ingredients"])
                                     THEN List([k \in 1..Len(r["ingredients"].v) |->
                                                  Str(r["ingredients"].v[k])])
                                     ELSE r["ingredients"] >>,
          << <<"recipeInstructions">>,
             List([k \in 1..Len(r["instructions"].v) |->
                     Dict(<< << <<"@type">>, Str(<<"HowToStep">>) >>,
                             << <<"text">>, Str(r["instructions"].v[k]) >> >>)]) >>
        >>)

\* json.dumps(..., indent=2), then every line indented by two more spaces.
jsonld_of(obj) ==
    LET lines == splitlines(dumps(Dict(obj), 0))
    IN  Join(<<"\n">>, [k \in 1..Len(lines) |-> <<"  ">> \o lines[k]])

bring_link_of(slug) ==
    <<"https://api.getbring.com/rest/bringrecipes/deeplink", "?url=">>
    \o quote(REPO_PAGES_BASE \o <<"/">> \o slug \o <<"/">>)
    \o <<"&source=web">>

\* The meta line; "yield: ", "time: " and " * " stand for the two emoji
\* prefixes and the bullet separator of the source.
meta_of(r) ==
    LET meta_parts ==
          (IF Truthy(Get(r, "yield")) THEN << <<"yield: ">> \o r["yield"].v >> ELSE <<>>)
          \o (IF Truthy(Get(r, "time")) THEN << <<"time: ">> \o r["time"].v >> ELSE <<>>)
    IN  IF meta_parts # <<>> THEN Join(<<" * ">>, meta_parts)
        ELSE <<"Bring!-Import kompatibel">>

hero_img_of(r) ==
    IF Truthy(Get(r, "image_file"))
    THEN <<"<img class=\"hero\" src=\"../">> \o ASSETS_IMAGES \o <<"/">>
         \o escape(r["image_file"].v) \o <<"\" alt=\"">> \o escape(r["name"].v)
         \o <<"\" />">>
    ELSE <<>>

\* The record makes build_recipe_page raise before it writes: a missing key
\* (KeyError), a name that is no str (escape), ingredients or instructions
\* that cannot be iterated, a slug that is no str (DOCS_DIR / slug).
PageRaises(r) ==
    \/ \E k \in 1..Len(RequiredKeys) : RequiredKeys[k] \notin DOMAIN r
    \/ ~IsStr(r["slug"])
    \/ ~IsStr(r["name"])
    \/ ~IsList(r["ingredients"])
    \/ ~IsList(r["instructions"])

html_of(r) ==
    LET title == r["name"].v
    IN  HTML_TEMPLATE(
          escape(title),
          escape(<<"Privates Rezept: ">> \o title),
          escape(meta_of(r)),
          hero_img_of(r),
          jsonld_of(jsonld_obj_of(r)),
          Join(<<"\n">>, [k \in 1..Len(r["ingredients"].v) |-> li(r["ingredients"].v[k])]),
          Join(<<"\n">>, [k \in 1..Len(r["instructions"].v) |-> li(r["instructions"].v[k])]),
          bring_link_of(r["slug"].v))

NoPage == [obj |-> <<>>, jsonld |-> <<>>, html |-> <<>>]

\* build_recipe_page(r) on the filesystem (fs_dirs, fs_tree).
build_recipe_page(r, fs_dirs, fs_tree) ==
    IF PageRaises(r)
    THEN [raised |-> TRUE, dirs |-> fs_dirs, tree |-> fs_tree, page |-> NoPage]
    ELSE LET out_dir == PathJoin(DOCS_DIR, r["slug"].v)
             made == mkdir(fs_dirs, fs_tree, out_dir)
         IN  IF made.raised
             THEN [raised |-> TRUE, dirs |-> fs_dirs, tree |-> fs_tree, page |-> NoPage]
             ELSE LET obj == jsonld_obj_of(r)
                      html == html_of(r)
                  IN  [raised |-> FALSE,
                       dirs |-> made.dirs,
                       tree |-> write_text(fs_tree, out_dir \o <<INDEX_HTML>>, html),
                       page |-> [obj |-> obj, jsonld |-> jsonld_of(obj), html |-> html]]

(***************************************************************************)
(* build.py: build_index.                                                  *)
(***************************************************************************)
link(r) ==
    <<"          ", "<", "li", ">", "<", "a href=", "\"", ".", "/">>
    \o escape(r["slug"].v) \o <<"/", "\"", ">">> \o escape(r["name"].v)
    \o <<"<", "/", "a", ">", "<", "/", "li", ">">>

index_html_of(rs) ==
    INDEX_TEMPLATE(Join(<<"\n">>, [k \in 1..Len(rs) |-> link(rs[k])]))

\* An index builder that also removes the pages of recipes no longer there.
build_index_clean(rs, fs_tree) ==
    LET keep == {q \in DOMAIN fs_tree :
                   \E k \in 1..Len(rs) :
                      q = PathJoin(DOCS_DIR, rs[k]["slug"].v) \o <<INDEX_HTML>>}
    IN  [q \in keep \cup {DOCS_DIR \o <<INDEX_HTML>>} |->
           IF q = DOCS_DIR \o <<INDEX_HTML>> THEN index_html_of(rs) ELSE fs_tree[q]]

build_index(rs, fs_tree) ==
    write_text(fs_tree, DOCS_DIR \o <<INDEX_HTML>>, index_html_of(rs))

(***************************************************************************)
(* build.py: main, one step per statement.  pc is the statement main is    *)
(* at; "idle" is between two runs of the script.                           *)
(***************************************************************************)
\* A driver that writes the index before the pages.
main_next_index_first(at, n, k) ==
    CASE at = "start" -> "load"
      [] at = "load" -> "mkdir"
      [] at = "mkdir" -> "index"
      [] at = "index" -> IF n = 0 THEN "print" ELSE "pages"
      [] at = "pages" -> IF k < n THEN "pages" ELSE "print"
      [] OTHER -> "done"

\* The statement that follows statement at, with n records loaded and k of
\* them rendered.
main_next(at, n, k) ==
    CASE at = "start" -> "load"
      [] at = "load" -> "mkdir"
      [] at = "mkdir" -> IF n = 0 THEN "index" ELSE "pages"
      [] at = "pages" -> IF k < n THEN "pages" ELSE "index"
      [] at = "index" -> "print"
      [] OTHER -> "done"

Event(op, k) == [op |-> op, k |-> k]

\* python tools/build.py is started.
Main ==
    /\ pc = "idle"
    /\ runs < MaxRuns
    /\ runs' = runs + 1
    /\ pc' = main_next("start", 0, 0)
    /\ recipes' = <<>>
    /\ i' = 1
    /\ err' = NoErr
    /\ stdout' = <<>>
    /\ log' = <<>>
    /\ page' = NoPage
    /\ startTree' = tree
    /\ startDirs' = dirs
    /\ edited' = FALSE
    /\ UNCHANGED <<files, tree, dirs, prevFiles, prevTree>>

\* recipes = load_recipes()
Load ==
    /\ pc = "load"
    /\ LET res == load_recipes(files)
       IN  /\ err' = res.err
           /\ recipes' = res.out
           /\ pc' = IF res.err = NoErr THEN main_next("load", Len(res.out), 0)
                    ELSE "failed"
    /\ log' = Append(log, Event("load", 0))
    /\ UNCHANGED <<files, tree, dirs, i, stdout, page, startTree, startDirs,
                   runs, prevFiles, prevTree, edited>>

\* DOCS_DIR.mkdir(exist_ok=True)
MkDocs ==
    /\ pc = "mkdir"
    /\ LET made == mkdir(dirs, tree, DOCS_DIR)
       IN  /\ dirs' = made.dirs
           /\ err' = IF made.raised THEN [kind |-> "OSError", p |-> 0, key |-> ""]
                     ELSE err
           /\ pc' = IF made.raised THEN "failed"
                    ELSE main_next("mkdir", Len(recipes), 0)
    /\ log' = Append(log, Event("mkdir", 0))
    /\ UNCHANGED <<files, tree, recipes, i, stdout, page, startTree, startDirs,
                   runs, prevFiles, prevTree, edited>>

\* One iteration of  for r in recipes: build_recipe_page(r)
BuildPage ==
    /\ pc = "pages"
    /\ LET res == build_recipe_page(recipes[i], dirs, tree)
       IN  /\ dirs' = res.dirs
           /\ tree' = res.tree
           /\ page' = res.page
           /\ err' = IF res.raised THEN [kind |-> "TypeError", p |-> 0, key |-> ""]
                     ELSE err
           /\ pc' = IF res.raised THEN "failed"
                    ELSE main_next("pages", Len(recipes), i)
           /\ i' = IF res.raised THEN i ELSE i + 1
           /\ log' = IF res.raised THEN log ELSE Append(log, Event("page", i))
    /\ UNCHANGED <<files, recipes, stdout, startTree, startDirs, runs,
                   prevFiles, prevTree, edited>>

\* build_index(recipes)
BuildIndex ==
    /\ pc = "index"
    /\ tree' = build_index(recipes, tree)
    /\ pc' = main_next("index", Len(recipes), Len(recipes))
    /\ log' = Append(log, Event("index", 0))
    /\ UNCHANGED <<files, dirs, recipes, i, err, stdout, page, startTree,
                   startDirs, runs, prevFiles, prevTree, edited>>

\* print(f"Built {len(recipes)} recipes into {DOCS_DIR}")
PrintSummary ==
    /\ pc = "print"
    /\ stdout' = Append(stdout, Len(recipes))
    /\ pc' = main_next("print", Len(recipes), Len(recipes))
    /\ log' = Append(log, Event("print", 0))
    /\ UNCHANGED <<files, tree, dirs, recipes, i, err, page, startTree,
                   startDirs, runs, prevFiles, prevTree, edited>>

\* The process ends, normally or with the exception uncaught.
Exit ==
    /\ pc \in {"done", "failed"}
    /\ pc' = "idle"
    /\ prevFiles' = files
    /\ prevTree' = tree
    /\ UNCHANGED <<files, tree, dirs, recipes, i, err, stdout, log, page,
                   startTree, startDirs, runs, edited>>

Run == Main \/ Load \/ MkDocs \/ BuildPage \/ BuildIndex \/ PrintSummary \/ Exit

(***************************************************************************)
(* The inputs: the recipe files someone keeps under recipes/.              *)
(***************************************************************************)
Valid(slug, name, ingredients, instructions) ==
    [slug |-> Str(slug), name |-> Str(name),
     ingredients |-> List(ingredients), instructions |-> List(instructions)]

RecipePool ==
    { \* two recipes that share the slug "a" and differ in everything else
      Valid(<<"a">>, <<"x">>, << <<"x">> >>, << <<"x">>, <<"&">> >>)
        @@ [yield |-> Str(<<"4">>), image_file |-> Str(<<"x">>)],
      Valid(<<"a">>, <<"<">>, <<>>, << <<"x">> >>),
      Valid(<<"b">>, <<"&">>, << <<"x">> >>, <<>>) @@ [time |-> Str(<<"x">>)],
      \* "slug": ""
      Valid(<<>>, <<"x">>, << <<"x">> >>, << <<"x">> >>),
      \* "name": null
      [slug |-> Str(<<"b">>), name |-> None,
       ingredients |-> List(<<>>), instructions |-> List(<<>>)],
      \* no "name", no "instructions"
      [slug |-> Str(<<"a">>), ingredients |-> List(<<>>)] }

FileNames == 1..MaxFiles

Dirs(pool) == UNION {[S -> pool] : S \in SUBSET FileNames}

STALE == <<"stale">>

\* The output tree a run may find: nothing, or what earlier builds left.
InitialTrees ==
    { [dirs |-> Prefixes(ROOT), tree |-> <<>>],
      [dirs |-> Prefixes(DOCS_DIR \o << <<"a">> >>) \cup Prefixes(DOCS_DIR \o << <<"b">> >>),
       tree |-> [q \in {DOCS_DIR \o <<INDEX_HTML>>,
                        DOCS_DIR \o << <<"a">>, INDEX_HTML >>,
                        DOCS_DIR \o << <<"b">>, INDEX_HTML >>} |-> STALE]] }

InitWith(inputs, trees) ==
    /\ files \in inputs
    /\ \E fs \in trees : dirs = fs.dirs /\ tree = fs.tree
    /\ pc = "idle"
    /\ recipes = <<>>
    /\ i = 1
    /\ err = NoErr
    /\ stdout = <<>>
    /\ log = <<>>
    /\ page = NoPage
    /\ startTree = tree
    /\ startDirs = dirs
    /\ runs = 0
    /\ prevFiles = files
    /\ prevTree = tree
    /\ edited = FALSE

\* Between two runs someone writes or removes one recipe file.
WriteFile ==
    /\ pc = "idle" /\ runs > 0 /\ runs < MaxRuns /\ ~edited
    /\ \E p \in FileNames, data \in RecipePool :
         files' = [q \in DOMAIN files \cup {p} |-> IF q = p THEN data ELSE files[q]]
    /\ files' # files
    /\ edited' = TRUE
    /\ UNCHANGED <<tree, dirs, pc, recipes, i, err, stdout, log, page,
                   startTree, startDirs, runs, prevFiles, prevTree>>

RemoveFile ==
    /\ pc = "idle" /\ runs > 0 /\ runs < MaxRuns /\ ~edited
    /\ \E p \in DOMAIN files : files' = [q \in DOMAIN files \ {p} |-> files[q]]
    /\ edited' = TRUE
    /\ UNCHANGED <<tree, dirs, pc, recipes, i, err, stdout, log, page,
                   startTree, startDirs, runs, prevFiles, prevTree>>

Init == InitWith(Dirs(RecipePool), InitialTrees)

Next == Run \/ WriteFile \/ RemoveFile

Spec == Init /\ [][Next]_vars

(***************************************************************************)
(* A second specification: one run of the same script on recipes whose     *)
(* texts range over every text of at most MaxLen symbols of Chars.         *)
(***************************************************************************)
Chars == {"x", "&", "<", ">", "\"", "/", "script"}

RECURSIVE TextsUpTo(_)
TextsUpTo(n) ==
    IF n = 0 THEN {<<>>}
    ELSE TextsUpTo(n - 1)
         \cup {Append(s, c) : s \in {u \in TextsUpTo(n - 1) : Len(u) = n - 1}, c \in Chars}

CLOSE_TAG == <<"<", "/", "script", ">">>

Texts == TextsUpTo(MaxLen) \cup {CLOSE_TAG}

Optional == {"absent", "null", "empty", "text"}

\* A record with the given optional keys, each absent, null, "" or text.
WithOptional(r, key, how, text) ==
    CASE how = "absent" -> r
      [] how = "null" -> r @@ (key :> None)
      [] how = "empty" -> r @@ (key :> Str(<<>>))
      [] OTHER -> r @@ (key :> Str(text))

TextRecipes ==
    \* the text as the slug
    {Valid(s, <<"x">>, << <<"x">> >>, << <<"x">> >>) : s \in Texts}
    \* the text in every other field
    \cup {Valid(<<"a">>, s, <<s>>, <<s, <<"x">> >>)
            @@ [yield |-> Str(s), time |-> Str(s), image_file |-> Str(s)] : s \in Texts}
    \* every shape of the optional keys and of the two lists
    \cup {WithOptional(WithOptional(
              Valid(<<"a">>, <<"x">>, ingredients, instructions),
              "yield", y, <<"4">>), "image_file", img, <<"x">>) :
            y \in Optional, img \in Optional,
            ingredients \in {<<>>, << <<"x">> >>},
            instructions \in {<<>>, << <<"x">>, <<"&">> >>}}

Other == Valid(<<"b">>, <<"&">>, << <<"x">> >>, <<>>)

TextDirs ==
    UNION {{(1 :> r), (1 :> r) @@ (2 :> Other), (1 :> Other) @@ (2 :> r)} :
             r \in TextRecipes}

InitText == InitWith(TextDirs, {[dirs |-> Prefixes(ROOT), tree |-> <<>>]})

SpecText == InitText /\ [][Run]_vars

(***************************************************************************)
(* What the claims speak of.                                               *)
(***************************************************************************)
Required == {"slug", "name", "ingredients", "instructions"}

Lacks(data) == \E key \in Required : key \notin DOMAIN data

\* The file the path string "{output_root}/{slug}/index.html" names.
PagePath(slug) == DOCS_DIR \o Parts(slug) \o <<INDEX_HTML>>
IndexPath == DOCS_DIR \o <<INDEX_HTML>>

InDocs(q) == Len(q) > Len(DOCS_DIR) /\ SubSeq(q, 1, Len(DOCS_DIR)) = DOCS_DIR

\* The records of the input directory in the order of their file names.
InFileOrder(dir) ==
    [k \in 1..Cardinality(DOMAIN dir) |->
       dir[CHOOSE q \in DOMAIN dir : Cardinality({o \in DOMAIN dir : o < q}) = k - 1]]

\* The last loaded record with the slug of record k.
LastWithSlug(k) ==
    recipes[CHOOSE j \in k..Len(recipes) :
              /\ recipes[j]["slug"] = recipes[k]["slug"]
              /\ \A m \in (j + 1)..Len(recipes) : recipes[m]["slug"] # recipes[k]["slug"]]

SharedSlug ==
    \E j, k \in 1..Len(recipes) : j < k /\ recipes[j]["slug"] = recipes[k]["slug"]

\* C1: when a file of the input lacks a required key, the run fails in the
\* loader with an error that names such a file and a key it lacks, and the
\* output tree (files and directories) is as the run found it.
C1_MissingFieldFailsFast ==
    (pc \notin {"idle", "load"} /\ \E q \in DOMAIN files : Lacks(files[q]))
      => /\ pc = "failed"
         /\ err.kind = "ValueError"
         /\ err.p \in DOMAIN files
         /\ err.key \in Required
         /\ err.key \notin DOMAIN files[err.p]
         /\ tree = startTree
         /\ dirs = startDirs

C1_Witness ==
    /\ pc = "failed"
    /\ err.kind = "ValueError"
    /\ Cardinality(DOMAIN files) = 2
    /\ \E q \in DOMAIN files : ~Lacks(files[q])
    /\ startTree # <<>>

\* C2: every loaded record has the four required keys, none of them null.
C2_LoadedNonNull ==
    \A k \in 1..Len(recipes) : \A key \in Required :
        key \in DOMAIN recipes[k] /\ recipes[k][key] # None

\* C3: after a run that completes, index.html exists and every loaded record
\* has its file {output_root}/{slug}/index.html, holding the page rendered in
\* this run for a record with that slug.
C3_PagesPresent ==
    pc = "done"
      => /\ IndexPath \in DOMAIN tree
         /\ \A k \in 1..Len(recipes) :
              /\ PagePath(recipes[k]["slug"].v) \in DOMAIN tree
              /\ \E j \in 1..Len(recipes) :
                   /\ recipes[j]["slug"] = recipes[k]["slug"]
                   /\ tree[PagePath(recipes[k]["slug"].v)] = html_of(recipes[j])

\* C4: a run that completes on the input of the run before it leaves the
\* output tree exactly as that run left it.
C4_Idempotent ==
    (pc = "done" /\ runs >= 2 /\ files = prevFiles) => tree = prevTree

C4_Witness ==
    /\ pc = "done" /\ runs = 2 /\ files = prevFiles
    /\ Len(recipes) = 2
    /\ recipes[1]["slug"] # recipes[2]["slug"]

\* C8: the steps of a run happen in the order load, mkdir, one page per
\* record in loader order, index, print; nothing is written before the load
\* has succeeded; the printed count is the number of loaded records.
ExpectedLog(n) ==
    <<Event("load", 0), Event("mkdir", 0)>>
    \o [k \in 1..n |-> Event("page", k)]
    \o <<Event("index", 0), Event("print", 0)>>

C8_Order ==
    /\ Len(log) <= Len(ExpectedLog(Len(recipes)))
    /\ log = SubSeq(ExpectedLog(Len(recipes)), 1, Len(log))
    /\ (tree # startTree \/ dirs # startDirs)
         => (log # <<>> /\ log[1] = Event("load", 0) /\ err.kind # "ValueError")
    /\ Len(stdout) <= 1
    /\ (stdout # <<>>) => (stdout[1] = Len(recipes) /\ pc \in {"done", "idle"})
    /\ (pc = "done") => (stdout = <<Len(recipes)>> /\ recipes = InFileOrder(files))

C8_Witness == pc = "done" /\ Len(recipes) = 2 /\ stdout = <<2>>

\* C9: records that share a slug are loaded without a load error, and after
\* a run that completes the file {output_root}/{slug}/index.html of every
\* loaded record holds the page of the last loaded record with that slug.
C9_LastWins ==
    (pc \in {"done", "failed"} /\ SharedSlug)
      => /\ err.kind # "ValueError"
         /\ pc = "done" =>
              \A k \in 1..Len(recipes) :
                 /\ PagePath(recipes[k]["slug"].v) \in DOMAIN tree
                 /\ tree[PagePath(recipes[k]["slug"].v)] = html_of(LastWithSlug(k))

\* C10: a run changes no file of the output tree but index.html and the
\* {slug}/index.html of the records it loaded, and deletes none.
Allowed ==
    {IndexPath} \cup {PagePath(recipes[k]["slug"].v) :
                        k \in {j \in 1..Len(recipes) : IsStr(recipes[j]["slug"])}}

C10_Frame ==
    \A q \in DOMAIN startTree \cup DOMAIN tree :
        (InDocs(q) /\ q \notin Allowed)
          => (q \in DOMAIN startTree /\ q \in DOMAIN tree /\ tree[q] = startTree[q])

C10_Witness ==
    /\ pc = "done" /\ runs = 2
    /\ \E q \in DOMAIN tree : q \notin Allowed /\ tree[q] # STALE

(***************************************************************************)
(* How a reader of the generated HTML sees it.                             *)
(***************************************************************************)
\* The least position of t from k on that holds symbol c, Len(t) + 1 if none.
Find(t, c, k) ==
    LET hits == {j \in k..Len(t) : t[j] = c}
    IN  IF hits = {} THEN Len(t) + 1 ELSE CHOOSE j \in hits : \A m \in hits : j <= m

EntityOf(name) ==
    CASE name = "amp;" -> "&"
      [] name = "lt;" -> "<"
      [] name = "gt;" -> ">"
      [] name = "quot;" -> "\""
      [] OTHER -> "'"

\* The text a character reference stands for.
RECURSIVE unescape(_)
unescape(s) ==
    IF s = <<>> THEN <<>>
    ELSE IF Len(s) >= 2 /\ s[1] = "&" /\ s[2] \in {"amp;", "lt;", "gt;", "quot;", "#x27;"}
    THEN <<EntityOf(s[2])>> \o unescape(SubSeq(s, 3, Len(s)))
    ELSE <<s[1]>> \o unescape(Tail(s))

\* The links of a page, in document order: each <a href="..."> with the
\* text up to the next tag as its label.
ParseLinks(t) ==
    LET starts == sorted({k \in 1..(Len(t) - 2) :
                            t[k] = "<" /\ t[k + 1] = "a href=" /\ t[k + 2] = "\""})
    IN  [n \in 1..Len(starts) |->
           LET q == Find(t, "\"", starts[n] + 3)
               e == Find(t, "<", q + 2)
           IN  [href |-> unescape(SubSeq(t, starts[n] + 3, q - 1)),
                closed |-> (q < Len(t) /\ t[q + 1] = ">"),
                label |-> unescape(SubSeq(t, q + 2, e - 1))]]

Rendered == recipes[i - 1]

HasKey(obj, key) == \E k \in 1..Len(obj) : obj[k][1] = <<key>>

\* C6 (as amended): the structured-data object carries no key whose value
\* is None or the empty string: "image" is there exactly when image_file is
\* a non-empty string, "recipeYield" exactly when yield is one, "name"
\* exactly when the name is not empty; "recipeIngredient" and
\* "recipeInstructions" are always there, an empty list included.
C6_NoNullNoEmptyString ==
    page # NoPage
      => /\ \A k \in 1..Len(page.obj) :
              page.obj[k][2] # None /\ page.obj[k][2] # Str(<<>>)
         /\ HasKey(page.obj, "image") <=> Truthy(Get(Rendered, "image_file"))
         /\ HasKey(page.obj, "recipeYield") <=> Truthy(Get(Rendered, "yield"))
         /\ HasKey(page.obj, "name") <=> Rendered["name"] # Str(<<>>)
         /\ HasKey(page.obj, "recipeIngredient")
         /\ HasKey(page.obj, "recipeInstructions")

C6_Witness ==
    /\ page # NoPage
    /\ Get(Rendered, "yield") = Str(<<>>)
    /\ Get(Rendered, "image_file") = None
    /\ Rendered["ingredients"] = List(<<>>)
    /\ ~HasKey(page.obj, "recipeYield")

\* C6 (as claimed): no key of the structured-data object carries None or an
\* empty value, an empty list included.
C6_NoEmptyValue ==
    page # NoPage
      => \A k \in 1..Len(page.obj) :
            page.obj[k][2] \notin {None, Str(<<>>), List(<<>>)}

\* The first position after the opening <script ...> tag where an end tag
\* of the script element starts.
ScriptStart(html) ==
    Find(html, "script type=\"application/ld+json\"", 1) + 2

ScriptEnd(html) ==
    LET ends == {k \in ScriptStart(html)..(Len(html) - 3) :
                   /\ html[k] = "<" /\ html[k + 1] = "/" /\ html[k + 2] = "script"
                   /\ html[k + 3] \in {">", "/", " ", "\n"}}
    IN  CHOOSE k \in ends : \A m \in ends : k <= m

\* C7: the script block of a generated page ends at the template's own
\* </script>: its content is the structured-data text and nothing less.
C7_ScriptBlockWhole ==
    page # NoPage
      => SubSeq(page.html, ScriptStart(page.html), ScriptEnd(page.html) - 1)
           = <<"\n">> \o page.jsonld \o <<"\n", "  ">>

====
